---- MODULE Spec2Model ----
(***************************************************************************)
(* A model of the badger-gui key-value store adapter (database/badger.go): *)
(* the open/close life cycle, the guarded point accessors, the cursor      *)
(* paginated List scan and the background value-log compactor.             *)
(*                                                                         *)
(* Keys, prefixes and cursors are byte strings, written here as sequences  *)
(* of byte codes so that the engine's lexicographic key order and prefix   *)
(* test can be computed:  a=97 b=98 d=100 e=101 n=110 /=47 1=49 2=50 3=51. *)
(* The storage engine itself (dgraph-io/badger) is outside the repository; *)
(* it is modelled as an ordered map with the outcomes its API documents.   *)
(***************************************************************************)
EXTENDS Integers, Sequences, FiniteSets, TLC

VARIABLES
    badger,      \* db.badger: "nil", or a handle to an "open" / "closed" engine
    engineMem,   \* whether the engine behind db.badger is the in-memory one
    isRunning,   \* db.isRunning
    badgerOpts,  \* db.badgerOpts
    stopChan,    \* db.stopChan: "open" or "closed"
    gc,          \* the runEventualGC goroutines started so far (their position)
    disk,        \* entries persisted in the on-disk store
    diskKey,     \* encryption key the on-disk store was created with
    dirLock,     \* the on-disk directory lock is held by an engine instance
    mem,         \* entries of the in-memory engine
    panicked,    \* "none", or the run-time panic that ended the process
    ret,         \* what the most recent call returned (and whether it used the handle)
    expect,      \* per key: the value the last Set/Delete of this open period left
    scan,        \* a paginated listing in progress: the pages collected so far
    calls,       \* per concurrent caller: the accessor call past its running guard
    closing,     \* how far a Close call in progress has got
    iter,        \* the List scan in progress: its snapshot, position and page
    app          \* the App in front of the store: delimiter, last response

vars == <<badger, engineMem, isRunning, badgerOpts, stopChan, gc, disk, diskKey,
          dirLock, mem, panicked, ret, expect, scan, calls, closing, iter, app>>

(***************************************************************************)
(* Bounds of the model.                                                    *)
(***************************************************************************)
MaxLimit == 2      \* List limits range over -1 .. MaxLimit (and nil)
MaxTasks == 2      \* compactor goroutines ever started
MaxPages == 3      \* pages followed in one paginated listing
MaxReadFails == 1  \* entries whose value read fails during one scan
MaxCallers == 2    \* goroutines calling the accessors concurrently

(***************************************************************************)
(* Byte strings.                                                           *)
(***************************************************************************)
RECURSIVE LexLess(_, _)
\* bytes.Compare(s, t) < 0
LexLess(s, t) ==
    IF t = <<>> THEN FALSE
    ELSE IF s = <<>> THEN TRUE
    ELSE IF s[1] # t[1] THEN s[1] < t[1]
    ELSE LexLess(Tail(s), Tail(t))

LexLeq(s, t) == s = t \/ LexLess(s, t)

\* bytes.HasPrefix(key, prefix)
HasPrefix(key, prefix) ==
    /\ Len(prefix) <= Len(key)
    /\ SubSeq(key, 1, Len(prefix)) = prefix

RECURSIVE SortKeys(_)
\* the keys of a set in the engine's iteration order
SortKeys(S) ==
    IF S = {} THEN <<>>
    ELSE LET m == CHOOSE x \in S : \A y \in S : LexLeq(x, y)
         IN  <<m>> \o SortKeys(S \ {m})

Ka1 == <<97, 47, 49>>      \* "a/1"
Ka2 == <<97, 47, 50>>      \* "a/2"
Ka3 == <<97, 47, 51>>      \* "a/3"
Kb1 == <<98, 47, 49>>      \* "b/1"
Kend == <<101, 110, 100>>  \* "end"

endCursor == <<101, 110, 100>>   \* const endCursor = "end"
defaultLimit == 20

Keys == {Ka1, Ka2, Ka3, Kb1, Kend}
AccessorKeys == {Ka1, Kend}
Values == {"v1", "v2"}
NoValue == "absent"
Prefixes == {<<>>, <<97, 47>>, <<98, 47>>, <<101>>}   \* "", "a/", "b/", "e"

EmptyStore == [k \in Keys |-> NoValue]
KeysOf(store) == {k \in Keys : store[k] # NoValue}

(***************************************************************************)
(* The List scan, as a function of the engine's entries.  `bad` is the set *)
(* of keys whose value read (item.ValueCopy) fails during this scan.       *)
(* A result says whether the engine handle was used (`deref`) and whether  *)
(* the call panicked before reaching it (`crash`).                         *)
(***************************************************************************)
ScanResult(items, cursor, errs) ==
    [items |-> items, cursor |-> cursor, errs |-> errs,
     err |-> IF errs = <<>> THEN "nil" ELSE "ErrValueRead",
     deref |-> TRUE, crash |-> "none"]

\* it.Seek(seekKey): the entries from the first key >= seekKey on, in key order
Seek(store, seekKey) ==
    SortKeys({k \in KeysOf(store) : LexLeq(seekKey, k)})

RECURSIVE iterateLoopCountsFailures(_, _, _, _, _, _, _, _)
\* a loop that counts an entry whose value read failed toward the limit
iterateLoopCountsFailures(store, bad, prefix, limit, rest, iterNum, items, errs) ==
    IF rest = <<>> \/ ~HasPrefix(rest[1], prefix)
    THEN [iterNum |-> iterNum, items |-> items, errs |-> errs, lastKey |-> <<>>]
    ELSE IF iterNum >= limit
    THEN [iterNum |-> iterNum, items |-> items, errs |-> errs, lastKey |-> rest[1]]
    ELSE IF rest[1] \in bad
    THEN iterateLoopCountsFailures(store, bad, prefix, limit, Tail(rest), iterNum + 1,
                                   items, Append(errs, rest[1]))
    ELSE iterateLoopCountsFailures(store, bad, prefix, limit, Tail(rest), iterNum + 1,
                                   Append(items, [Key |-> rest[1],
                                                  Value |-> store[rest[1]]]), errs)

RECURSIVE iterateLoop(_, _, _, _, _, _, _, _)
\* the for loop of iterate: `rest` is what the iterator has still to visit
iterateLoop(store, bad, prefix, limit, rest, iterNum, items, errs) ==
    IF rest = <<>> \/ ~HasPrefix(rest[1], prefix)
    THEN [iterNum |-> iterNum, items |-> items, errs |-> errs, lastKey |-> <<>>]
    ELSE IF iterNum >= limit
    THEN [iterNum |-> iterNum, items |-> items, errs |-> errs, lastKey |-> rest[1]]
    ELSE IF rest[1] \in bad
    THEN iterateLoop(store, bad, prefix, limit, Tail(rest), iterNum, items,
                     Append(errs, rest[1]))
    ELSE iterateLoop(store, bad, prefix, limit, Tail(rest), iterNum + 1,
                     Append(items, [Key |-> rest[1], Value |-> store[rest[1]]]), errs)

\* a scan that hands back the last key of the page as the cursor when more remain
iterateScanCursorLast(store, bad, prefix, startCursor, limit) ==
    LET seekKey == IF startCursor # <<>> THEN startCursor ELSE prefix
        r       == iterateLoop(store, bad, prefix, limit, Seek(store, seekKey),
                               0, <<>>, <<>>)
        lastKey == IF r.iterNum < limit THEN endCursor
                   ELSE IF r.lastKey # <<>> /\ r.items # <<>>
                   THEN r.items[Len(r.items)].Key
                   ELSE r.lastKey
    IN  ScanResult(r.items, lastKey, r.errs)

\* iterate past its sentinel test: seek, loop, pick the cursor
iterateScan(store, bad, prefix, startCursor, limit) ==
    LET seekKey == IF startCursor # <<>> THEN startCursor ELSE prefix
        r       == iterateLoop(store, bad, prefix, limit, Seek(store, seekKey),
                               0, <<>>, <<>>)
        lastKey == IF r.iterNum < limit THEN endCursor ELSE r.lastKey
    IN  ScanResult(r.items, lastKey, r.errs)

iterate(store, bad, prefix, startCursor, limit) ==
    IF startCursor = endCursor
    THEN [ScanResult(<<>>, endCursor, <<>>) EXCEPT !.deref = FALSE]
    ELSE iterateScan(store, bad, prefix, startCursor, limit)

\* a List that lost its end-sentinel short cut and scans from the cursor
ListNoShortCut(store, bad, prefix, limit, cursor) ==
    LET startCursor == IF cursor # <<>> /\ cursor[1] # <<>> THEN cursor[1] ELSE <<>>
        lim         == IF limit = <<>> THEN defaultLimit ELSE limit[1]
    IN  iterateScan(store, bad, prefix, startCursor, lim)

\* DB.List: limit is <<>> (nil) or <<n>>, cursor is <<>> (nil) or <<c>>
List(store, bad, prefix, limit, cursor) ==
    LET startCursor == IF cursor # <<>> /\ cursor[1] # <<>> THEN cursor[1] ELSE <<>>
        lim         == IF limit = <<>> THEN defaultLimit ELSE limit[1]
    IN  IF startCursor = endCursor
        THEN [ScanResult(<<>>, endCursor, <<>>) EXCEPT !.deref = FALSE]
        ELSE IF lim < 0
        THEN [ScanResult(<<>>, <<>>, <<>>) EXCEPT !.deref = FALSE,
                                                  !.crash = "makeslice: cap out of range"]
        ELSE iterate(store, bad, prefix, startCursor, lim)

PageKeys(items) == [i \in 1..Len(items) |-> items[i].Key]

(***************************************************************************)
(* Engine options (the fields of badger.Options the adapter sets).         *)
(***************************************************************************)
WorkDirStore == "cwd/.badger"

\* New: DefaultOptions(currentDir + "/.badger") with the adapter's tuning
NewOptions ==
    [Dir |-> WorkDirStore, ValueDir |-> WorkDirStore, InMemory |-> FALSE,
     EncryptionKey |-> "", Compression |-> "None", NumCompactors |-> 4,
     SyncWrites |-> TRUE]

\* Open with an empty path: DefaultOptions("") with the in-memory tuning; the
\* codec is the engine's default, which is snappy
InMemoryOptions ==
    [Dir |-> "", ValueDir |-> "", InMemory |-> TRUE,
     EncryptionKey |-> "", Compression |-> "Snappy", NumCompactors |-> 2,
     SyncWrites |-> TRUE]

\* hex.DecodeString on the key arguments of the model: "6b31" is the hex of "k1"
HexDecodeString(s) ==
    IF s = "6b31" THEN [ok |-> TRUE, val |-> "k1"] ELSE [ok |-> FALSE, val |-> ""]

\* strings.ToLower on the compression arguments of the model
ToLower(s) ==
    CASE s = "Snappy" -> "snappy"
      [] s = "SNAPPY" -> "snappy"
      [] s = "ZSTD"   -> "zstd"
      [] OTHER        -> s

\* the path branch of Open
WithPath(opts, dbPath) ==
    IF dbPath = "" THEN InMemoryOptions ELSE [opts EXCEPT !.Dir = dbPath]

\* the key branch of Open
WithKey(opts, key) ==
    IF key # ""
    THEN LET h == HexDecodeString(key)
         IN  [opts EXCEPT !.EncryptionKey = IF h.ok THEN h.val ELSE key]
    ELSE opts

\* the compression branch of Open
WithCodec(opts, compression) ==
    IF compression # ""
    THEN CASE ToLower(compression) = "snappy" -> [opts EXCEPT !.Compression = "Snappy"]
           [] ToLower(compression) = "zstd"   -> [opts EXCEPT !.Compression = "ZSTD"]
           [] OTHER                           -> [opts EXCEPT !.Compression = "None"]
    ELSE opts

\* the options Open hands to the engine
OpenOptions(opts, dbPath, key, compression) ==
    WithCodec(WithKey(WithPath(opts, dbPath), key), compression)

(***************************************************************************)
(* The engine's answer to badger.Open(opts): "ok", the encryption key      *)
(* mismatch, or another failure.  An in-memory engine refuses a directory, *)
(* an on-disk engine needs the directory lock and the store's own key, and *)
(* any on-disk open may fail on i/o.                                       *)
(***************************************************************************)
NoKeyYet == "no store yet"

EngineOpen(opts) ==
    IF opts.InMemory
    THEN IF opts.Dir # "" \/ opts.ValueDir # "" THEN {"ErrEngine"} ELSE {"ok"}
    ELSE IF dirLock THEN {"ErrEngine"}
    ELSE IF diskKey # NoKeyYet /\ diskKey # opts.EncryptionKey
    THEN {"ErrEncryptionKeyMismatch", "ErrEngine"}
    ELSE {"ok", "ErrEngine"}

\* an Open that hands every engine error through as it is
OpenErrorUnmapped(engineErr) == engineErr

\* what Open returns for the engine's answer
OpenError(engineErr) ==
    IF engineErr = "ErrEncryptionKeyMismatch" THEN "ErrWrongPassword" ELSE engineErr

(***************************************************************************)
(* Point operations inside one engine transaction.                         *)
(***************************************************************************)
\* an insert that keeps the value of a key already present
SetEntryKeepsOld(store, key, value) ==
    IF store[key] = NoValue THEN [store EXCEPT ![key] = value] ELSE store

SetEntry(store, key, value) == [store EXCEPT ![key] = value]

\* a delete whose transaction is never applied
DeleteEntryNotApplied(store, key) == store

DeleteEntry(store, key) == [store EXCEPT ![key] = NoValue]

GetEntry(store, key) ==
    IF store[key] = NoValue
    THEN [val |-> NoValue, err |-> "ErrKeyNotFound"]
    ELSE [val |-> store[key], err |-> "nil"]

\* the entries behind the current handle
Current == IF engineMem THEN mem ELSE disk

(***************************************************************************)
(* Records of a call's outcome.                                            *)
(***************************************************************************)
NoRet ==
    [op |-> "none", key |-> <<>>, val |-> NoValue, err |-> "nil", deref |-> FALSE,
     engine |-> "none", prefix |-> <<>>, limit |-> <<>>, cursorArg |-> <<>>,
     bad |-> {}, items |-> <<>>, cursor |-> <<>>, errs |-> <<>>, offset |-> 0]

NoScan ==
    [active |-> FALSE, prefix |-> <<>>, limit |-> 0, cursor |-> <<>>,
     acc |-> <<>>, pages |-> 0]

Unknown == "unknown"
Deleted == "deleted"
NoExpect == [k \in Keys |-> Unknown]

\* no accessor call of a caller is past its guard
NoCall == [op |-> "none", key |-> <<>>, val |-> NoValue]
NoCalls == [c \in 1..MaxCallers |-> NoCall]

\* no List scan is in progress
NoIter ==
    [active |-> FALSE, prefix |-> <<>>, limit |-> <<>>, cursorArg |-> <<>>, lim |-> 0,
     snap |-> EmptyStore, rest |-> <<>>, iterNum |-> 0, items |-> <<>>]

\* the App after NewApp: no delimiter, nothing answered, no open message past
\* its IsRunning check
NoResponse ==
    [req |-> "none", type |-> "none", body |-> <<>>, text |-> "", called |-> "none",
     keys |-> <<>>, cursor |-> <<>>, offset |-> 0]
NoOpening == [path |-> "none", delimiter |-> ""]
NoApp ==
    [delimiter |-> "", resp |-> NoResponse,
     opening |-> [c \in 1..MaxCallers |-> NoOpening]]

\* store calls made directly, not through the App
Direct == UNCHANGED app

\* the calls below run to completion one after the other
Sequential == UNCHANGED <<calls, closing, iter>>

(***************************************************************************)
(* Construction: New.                                                      *)
(***************************************************************************)
Init ==
    /\ badger = "nil"
    /\ engineMem = FALSE
    /\ isRunning = FALSE
    /\ badgerOpts = NewOptions
    /\ stopChan = "open"
    /\ gc = <<>>
    /\ disk = EmptyStore
    /\ diskKey = NoKeyYet
    /\ dirLock = FALSE
    /\ mem = EmptyStore
    /\ panicked = "none"
    /\ ret = NoRet
    /\ expect = NoExpect
    /\ scan = NoScan
    /\ calls = NoCalls
    /\ closing = "none"
    /\ iter = NoIter
    /\ app = NoApp

(***************************************************************************)
(* DB.Open.  The options are stored before the engine is asked; the handle *)
(* is overwritten with the engine's answer (nil on failure) whatever it    *)
(* held; a handle that was open and is overwritten keeps its directory     *)
(* lock.                                                                   *)
(***************************************************************************)
Open(dbPath, key, compression) ==
    /\ panicked = "none"
    /\ LET opts == OpenOptions(badgerOpts, dbPath, key, compression)
       IN  \E e \in EngineOpen(opts) :
             /\ badgerOpts' = opts
             /\ ret' = [NoRet EXCEPT !.op = "Open", !.engine = e,
                                       !.err = IF e = "ok" THEN "nil" ELSE OpenError(e)]
             /\ IF e # "ok"
                THEN /\ badger' = "nil"
                     /\ engineMem' = FALSE
                     /\ mem' = EmptyStore
                     /\ UNCHANGED <<isRunning, gc, diskKey, dirLock>>
                ELSE /\ badger' = "open"
                     /\ engineMem' = opts.InMemory
                     /\ mem' = EmptyStore
                     /\ isRunning' = TRUE
                     /\ IF opts.InMemory
                        THEN UNCHANGED <<gc, diskKey, dirLock>>
                        ELSE /\ Len(gc) < MaxTasks
                             /\ gc' = Append(gc, "start")
                             /\ dirLock' = TRUE
                             /\ diskKey' = IF diskKey = NoKeyYet
                                           THEN opts.EncryptionKey ELSE diskKey
    /\ expect' = NoExpect
    /\ UNCHANGED <<stopChan, disk, panicked, scan>>

(***************************************************************************)
(* DB.Close.  The engine's Close may fail: the handle is closed then, but  *)
(* the function returns before it clears the flag and the handle.          *)
(***************************************************************************)
Close ==
    /\ panicked = "none"
    /\ expect' = NoExpect
    /\ IF badger = "nil" \/ ~isRunning
       THEN /\ ret' = [NoRet EXCEPT !.op = "Close"]
            /\ UNCHANGED <<badger, engineMem, isRunning, stopChan, dirLock, mem,
                           panicked>>
       ELSE IF stopChan = "closed"
       THEN /\ panicked' = "close of closed channel"
            /\ ret' = [NoRet EXCEPT !.op = "Close", !.err = "panic"]
            /\ UNCHANGED <<badger, engineMem, isRunning, stopChan, dirLock, mem>>
       ELSE /\ stopChan' = "closed"
            /\ UNCHANGED panicked
            /\ \E e \in {"ok", "ErrEngine"} :
                 /\ ret' = [NoRet EXCEPT !.op = "Close", !.engine = e, !.deref = TRUE]
                 /\ IF e = "ok"
                    THEN /\ isRunning' = FALSE
                         /\ badger' = "nil"
                         /\ engineMem' = FALSE
                         /\ mem' = EmptyStore
                         /\ dirLock' = IF engineMem THEN dirLock ELSE FALSE
                    ELSE /\ badger' = "closed"
                         /\ UNCHANGED <<isRunning, engineMem, mem>>
                         /\ \E released \in BOOLEAN :
                              dirLock' = IF engineMem \/ ~released THEN dirLock ELSE FALSE
    /\ UNCHANGED <<badgerOpts, gc, disk, diskKey, scan>>

(***************************************************************************)
(* DB.Set, DB.Get, DB.Delete: the running-flag guard, then one transaction *)
(* on the handle.  A nil handle panics; a closed engine answers            *)
(* ErrDBClosed.                                                            *)
(***************************************************************************)
Write(store) ==
    /\ IF engineMem THEN mem' = store /\ UNCHANGED disk
                    ELSE disk' = store /\ UNCHANGED mem

Set(key, value) ==
    /\ panicked = "none"
    /\ LET r == [NoRet EXCEPT !.op = "Set", !.key = key, !.val = value]
       IN  IF ~isRunning
           THEN /\ ret' = [r EXCEPT !.err = "ErrNotRunning"]
                /\ UNCHANGED <<disk, mem, panicked, expect>>
           ELSE IF badger = "nil"
           THEN /\ ret' = [r EXCEPT !.err = "panic", !.deref = TRUE]
                /\ panicked' = "nil dereference"
                /\ UNCHANGED <<disk, mem, expect>>
           ELSE IF badger = "closed"
           THEN /\ ret' = [r EXCEPT !.err = "ErrDBClosed", !.deref = TRUE]
                /\ UNCHANGED <<disk, mem, panicked, expect>>
           ELSE /\ ret' = [r EXCEPT !.deref = TRUE]
                /\ Write(SetEntry(Current, key, value))
                /\ expect' = [expect EXCEPT ![key] = value]
                /\ UNCHANGED panicked
    /\ UNCHANGED <<badger, engineMem, isRunning, badgerOpts, stopChan, gc, diskKey,
                   dirLock, scan>>

Get(key) ==
    /\ panicked = "none"
    /\ LET r == [NoRet EXCEPT !.op = "Get", !.key = key]
       IN  IF ~isRunning
           THEN /\ ret' = [r EXCEPT !.err = "ErrNotRunning"]
                /\ UNCHANGED panicked
           ELSE IF badger = "nil"
           THEN /\ ret' = [r EXCEPT !.err = "panic", !.deref = TRUE]
                /\ panicked' = "nil dereference"
           ELSE IF badger = "closed"
           THEN /\ ret' = [r EXCEPT !.err = "ErrDBClosed", !.deref = TRUE]
                /\ UNCHANGED panicked
           ELSE /\ ret' = [r EXCEPT !.deref = TRUE,
                                    !.val = GetEntry(Current, key).val,
                                    !.err = GetEntry(Current, key).err]
                /\ UNCHANGED panicked
    /\ UNCHANGED <<badger, engineMem, isRunning, badgerOpts, stopChan, gc, disk,
                   diskKey, dirLock, mem, expect, scan>>

Delete(key) ==
    /\ panicked = "none"
    /\ LET r == [NoRet EXCEPT !.op = "Delete", !.key = key]
       IN  IF ~isRunning
           THEN /\ ret' = [r EXCEPT !.err = "ErrNotRunning"]
                /\ UNCHANGED <<disk, mem, panicked, expect>>
           ELSE IF badger = "nil"
           THEN /\ ret' = [r EXCEPT !.err = "panic", !.deref = TRUE]
                /\ panicked' = "nil dereference"
                /\ UNCHANGED <<disk, mem, expect>>
           ELSE IF badger = "closed"
           THEN /\ ret' = [r EXCEPT !.err = "ErrDBClosed", !.deref = TRUE]
                /\ UNCHANGED <<disk, mem, panicked, expect>>
           ELSE /\ ret' = [r EXCEPT !.deref = TRUE]
                /\ Write(DeleteEntry(DeleteEntry(Current, key), key))
                /\ expect' = [expect EXCEPT ![key] = Deleted]
                /\ UNCHANGED panicked
    /\ UNCHANGED <<badger, engineMem, isRunning, badgerOpts, stopChan, gc, diskKey,
                   dirLock, scan>>

(***************************************************************************)
(* DB.List.  There is no running-flag guard: unless the cursor is the end  *)
(* sentinel (or the limit makes the page allocation panic) the scan opens  *)
(* a transaction on the handle.  A nil handle panics; what a scan of a     *)
(* closed engine does is not defined by the engine, so it either panics or *)
(* reads the entries.                                                      *)
(***************************************************************************)
LimitArgs == {<<>>} \cup {<<n>> : n \in (0 - 1) .. MaxLimit}
CursorArgs == {<<>>, << <<>> >>} \cup {<<k>> : k \in Keys}
ReadFailures(store) == {B \in SUBSET KeysOf(store) : Cardinality(B) <= MaxReadFails}

ListRet(prefix, limit, cursor, bad, r) ==
    [NoRet EXCEPT !.op = "List", !.prefix = prefix, !.limit = limit,
                  !.cursorArg = cursor, !.bad = bad, !.items = r.items,
                  !.cursor = r.cursor, !.errs = r.errs, !.err = r.err,
                  !.deref = r.deref]

ListStep(prefix, limit, cursor, bad) ==
    /\ panicked = "none"
    /\ LET r  == List(Current, bad, prefix, limit, cursor)
           ok == ListRet(prefix, limit, cursor, bad, r)
           no == [ListRet(prefix, limit, cursor, bad, ScanResult(<<>>, <<>>, <<>>))
                    EXCEPT !.err = "panic", !.deref = r.deref]
       IN  IF r.crash # "none"
           THEN ret' = no /\ panicked' = r.crash
           ELSE IF ~r.deref
           THEN ret' = ok /\ UNCHANGED panicked
           ELSE IF badger = "nil"
           THEN ret' = no /\ panicked' = "nil dereference"
           ELSE IF badger = "closed"
           THEN \/ ret' = no /\ panicked' = "scan of a closed engine"
                \/ ret' = ok /\ UNCHANGED panicked
           ELSE ret' = ok /\ UNCHANGED panicked
    /\ UNCHANGED <<badger, engineMem, isRunning, badgerOpts, stopChan, gc, disk,
                   diskKey, dirLock, mem, expect>>

\* one List call on its own (it belongs to no paginated listing)
ListCall(prefix, limit, cursor, bad) ==
    /\ ListStep(prefix, limit, cursor, bad)
    /\ scan' = NoScan

(***************************************************************************)
(* A client paging through a prefix: the first call passes no cursor, each *)
(* further call passes the cursor the previous one returned, until the end *)
(* sentinel comes back.  `scan.acc` is the concatenation of the pages.     *)
(***************************************************************************)
Paged(prefix, limit, pagesBefore, accBefore) ==
    [active |-> ret'.err # "panic" /\ ret'.cursor # endCursor,
     prefix |-> prefix, limit |-> limit, cursor |-> ret'.cursor,
     acc |-> accBefore \o PageKeys(ret'.items), pages |-> pagesBefore + 1]

ScanFirst(prefix, limit) ==
    /\ ListStep(prefix, <<limit>>, <<>>, {})
    /\ scan' = Paged(prefix, limit, 0, <<>>)

ScanNext ==
    /\ scan.active
    /\ scan.pages < MaxPages
    /\ ListStep(scan.prefix, <<scan.limit>>, <<scan.cursor>>, {})
    /\ scan' = Paged(scan.prefix, scan.limit, scan.pages, scan.acc)

(***************************************************************************)
(* runEventualGC, one goroutine per successful on-disk Open.  Positions:   *)
(* "start" (not yet past the first reclamation call), "idle" (in select),  *)
(* "compacting" (about to call RunValueLogGC in the cycle), "sleeping"     *)
(* (time.Sleep between two attempts), "exited".                            *)
(***************************************************************************)
GCResults == {"nil", "ErrNoRewrite", "ErrRejected", "ErrEngine"}

\* where the reclamation loop goes after a call returned res: out of the loop
\* and back to the select, or to sleep before the next call
GCAfter(res) == IF res \in {"ErrNoRewrite", "ErrRejected"} THEN "idle" ELSE "sleeping"

GCFrame == UNCHANGED <<badger, engineMem, isRunning, badgerOpts, stopChan, disk,
                       diskKey, dirLock, mem, ret, expect, scan>>

GCFirst(i) ==
    /\ panicked = "none"
    /\ i \in 1..Len(gc) /\ gc[i] = "start"
    /\ IF badgerOpts.InMemory
       THEN gc' = [gc EXCEPT ![i] = "exited"] /\ UNCHANGED panicked
       ELSE IF badger = "nil"
       THEN panicked' = "nil dereference" /\ UNCHANGED gc
       ELSE gc' = [gc EXCEPT ![i] = "idle"] /\ UNCHANGED panicked
    /\ GCFrame

GCTick(i) ==
    /\ panicked = "none"
    /\ i \in 1..Len(gc) /\ gc[i] = "idle"
    /\ gc' = [gc EXCEPT ![i] = "compacting"]
    /\ UNCHANGED panicked
    /\ GCFrame

GCStop(i) ==
    /\ panicked = "none"
    /\ i \in 1..Len(gc) /\ gc[i] = "idle"
    /\ stopChan = "closed"
    /\ gc' = [gc EXCEPT ![i] = "exited"]
    /\ UNCHANGED panicked
    /\ GCFrame

GCRun(i) ==
    /\ panicked = "none"
    /\ i \in 1..Len(gc) /\ gc[i] = "compacting"
    /\ IF badger = "nil"
       THEN panicked' = "nil dereference" /\ UNCHANGED gc
       ELSE /\ UNCHANGED panicked
            /\ \E res \in GCResults : gc' = [gc EXCEPT ![i] = GCAfter(res)]
    /\ GCFrame

GCWake(i) ==
    /\ panicked = "none"
    /\ i \in 1..Len(gc) /\ gc[i] = "sleeping"
    /\ gc' = [gc EXCEPT ![i] = "compacting"]
    /\ UNCHANGED panicked
    /\ GCFrame

(***************************************************************************)
(* The adapter driven through its whole interface.                         *)
(***************************************************************************)
OpenPaths == {"", "/data/db"}
OpenKeys == {"", "6b31", "k2"}
OpenCodecs == {"", "ZSTD"}

Lifecycle(keyArgs, codecArgs) ==
    \/ \E p \in OpenPaths, k \in keyArgs, c \in codecArgs : Open(p, k, c)
    \/ Close

Accessors(keyArgs, valueArgs) ==
    \/ \E k \in keyArgs, v \in valueArgs : Set(k, v)
    \/ \E k \in keyArgs : Get(k)
    \/ \E k \in keyArgs : Delete(k)

Compactor ==
    \/ \E i \in 1..MaxTasks : GCFirst(i)
    \/ \E i \in 1..MaxTasks : GCTick(i)
    \/ \E i \in 1..MaxTasks : GCStop(i)
    \/ \E i \in 1..MaxTasks : GCRun(i)
    \/ \E i \in 1..MaxTasks : GCWake(i)

\* plain opens, every accessor on two keys, List from the start and from the end
\* sentinel
Next ==
    \/ Lifecycle({""}, {""}) /\ Sequential /\ Direct
    \/ Accessors(AccessorKeys, Values) /\ Sequential /\ Direct
    \/ \E l \in {<<>>, <<1>>} : ListCall(<<>>, l, <<>>, {}) /\ Sequential /\ Direct
    \/ \E p \in {<<>>, <<97, 47>>}, l \in {<<>>, <<0 - 1>>, <<1>>} :
         ListCall(p, l, <<endCursor>>, {}) /\ Sequential /\ Direct
    \/ Compactor /\ Sequential /\ Direct

Spec == Init /\ [][Next]_vars

\* opens with every key and codec argument, accessors on one entry
NextOpen ==
    \/ Lifecycle(OpenKeys, OpenCodecs) /\ Sequential /\ Direct
    \/ Accessors({Ka1}, {"v1"}) /\ Sequential /\ Direct
    \/ Compactor /\ Sequential /\ Direct

\* opens and closes alone, with every kind of compression argument
AllCodecs == {"", "Snappy", "ZSTD", "lz4"}

NextOptions == Lifecycle(OpenKeys, AllCodecs) /\ Sequential /\ Direct

SpecOptions == Init /\ [][NextOptions]_vars

SpecOpen == Init /\ [][NextOpen]_vars

(***************************************************************************)
(* Listing a store that stays as it is: an open in-memory store holding    *)
(* any set of the keys, List called with every prefix and limit from every *)
(* cursor and with read failures, and a client paging from the start.      *)
(***************************************************************************)
InitList ==
    /\ badger = "open"
    /\ engineMem = TRUE
    /\ isRunning = TRUE
    /\ badgerOpts = InMemoryOptions
    /\ stopChan = "open"
    /\ gc = <<>>
    /\ disk = EmptyStore
    /\ diskKey = NoKeyYet
    /\ dirLock = FALSE
    /\ \E S \in SUBSET Keys :
         /\ mem = [k \in Keys |-> IF k \in S THEN "v1" ELSE NoValue]
         /\ expect = [k \in Keys |-> IF k \in S THEN "v1" ELSE Unknown]
    /\ panicked = "none"
    /\ ret = NoRet
    /\ scan = NoScan
    /\ calls = NoCalls
    /\ closing = "none"
    /\ iter = NoIter
    /\ app = NoApp

NextList ==
    \/ \E p \in Prefixes, l \in 1..MaxLimit, c \in CursorArgs :
         ListCall(p, <<l>>, c, {}) /\ Sequential /\ Direct
    \/ \E p \in Prefixes, l \in 1..MaxLimit, B \in ReadFailures(Current) :
         ListCall(p, <<l>>, <<>>, B) /\ Sequential /\ Direct
    \/ \E p \in Prefixes, l \in LimitArgs : ListCall(p, l, <<>>, {}) /\ Sequential /\ Direct
    \/ \E p \in Prefixes, l \in LimitArgs :
         ListCall(p, l, <<endCursor>>, {}) /\ Sequential /\ Direct
    \/ \E p \in Prefixes, l \in 1..MaxLimit : ScanFirst(p, l) /\ Sequential /\ Direct
    \/ ScanNext /\ Sequential /\ Direct

SpecList == InitList /\ [][NextList]_vars

(***************************************************************************)
(* Calls that overlap.  An accessor is two steps: the isRunning.Load()     *)
(* check, then the transaction on whatever db.badger holds by then.  Close *)
(* is four: the checks with close(stopChan), db.badger.Close(),            *)
(* isRunning.Store(false), db.badger = nil.  db.badger is read and written *)
(* without synchronisation; the interleavings below give every value a     *)
(* racing read can return.  A transaction is atomic in the engine.         *)
(***************************************************************************)
Guard(c, op, key, value) ==
    /\ panicked = "none"
    /\ calls[c] = NoCall
    /\ IF ~isRunning
       THEN /\ ret' = [NoRet EXCEPT !.op = op, !.key = key, !.val = value,
                                     !.err = "ErrNotRunning"]
            /\ UNCHANGED calls
       ELSE /\ calls' = [calls EXCEPT ![c] = [op |-> op, key |-> key, val |-> value]]
            /\ UNCHANGED ret
    /\ UNCHANGED <<badger, engineMem, isRunning, badgerOpts, stopChan, gc, disk,
                   diskKey, dirLock, mem, panicked, expect, scan, closing, iter>>

Transact(c) ==
    /\ panicked = "none"
    /\ calls[c] # NoCall
    /\ calls' = [calls EXCEPT ![c] = NoCall]
    /\ LET call == calls[c]
           r    == [NoRet EXCEPT !.op = call.op, !.key = call.key, !.val = call.val,
                                 !.deref = TRUE]
       IN  IF badger = "nil"
           THEN /\ ret' = [r EXCEPT !.err = "panic"]
                /\ panicked' = "nil dereference"
                /\ UNCHANGED <<disk, mem, expect>>
           ELSE IF badger = "closed"
           THEN /\ ret' = [r EXCEPT !.err = "ErrDBClosed"]
                /\ UNCHANGED <<disk, mem, panicked, expect>>
           ELSE IF call.op = "Set"
           THEN /\ ret' = r
                /\ Write(SetEntry(Current, call.key, call.val))
                /\ expect' = [expect EXCEPT ![call.key] = call.val]
                /\ UNCHANGED panicked
           ELSE IF call.op = "Delete"
           THEN /\ ret' = r
                /\ Write(DeleteEntry(DeleteEntry(Current, call.key), call.key))
                /\ expect' = [expect EXCEPT ![call.key] = Deleted]
                /\ UNCHANGED panicked
           ELSE /\ ret' = [r EXCEPT !.val = GetEntry(Current, call.key).val,
                                    !.err = GetEntry(Current, call.key).err]
                /\ UNCHANGED <<disk, mem, panicked, expect>>
    /\ UNCHANGED <<badger, engineMem, isRunning, badgerOpts, stopChan, gc, diskKey,
                   dirLock, scan, closing, iter>>

\* Close up to and including close(db.stopChan)
CloseBegin ==
    /\ panicked = "none"
    /\ closing = "none"
    /\ expect' = NoExpect
    /\ IF badger = "nil" \/ ~isRunning
       THEN /\ ret' = [NoRet EXCEPT !.op = "Close"]
            /\ UNCHANGED <<stopChan, panicked, closing>>
       ELSE IF stopChan = "closed"
       THEN /\ panicked' = "close of closed channel"
            /\ ret' = [NoRet EXCEPT !.op = "Close", !.err = "panic"]
            /\ UNCHANGED <<stopChan, closing>>
       ELSE /\ stopChan' = "closed"
            /\ closing' = "signalled"
            /\ UNCHANGED <<panicked, ret>>
    /\ UNCHANGED <<badger, engineMem, isRunning, badgerOpts, gc, disk, diskKey,
                   dirLock, mem, scan, calls, iter>>

\* db.badger.Close(): on an error Close returns here
CloseEngine ==
    /\ panicked = "none"
    /\ closing = "signalled"
    /\ badger' = "closed"
    /\ \E e \in {"ok", "ErrEngine"} :
         IF e = "ok"
         THEN /\ closing' = "engineClosed"
              /\ dirLock' = IF engineMem THEN dirLock ELSE FALSE
              /\ UNCHANGED ret
         ELSE /\ closing' = "none"
              /\ ret' = [NoRet EXCEPT !.op = "Close", !.engine = e, !.deref = TRUE]
              /\ \E released \in BOOLEAN :
                   dirLock' = IF engineMem \/ ~released THEN dirLock ELSE FALSE
    /\ UNCHANGED <<engineMem, isRunning, badgerOpts, stopChan, gc, disk, diskKey,
                   mem, panicked, expect, scan, calls, iter>>

\* db.isRunning.Store(false)
CloseFlag ==
    /\ panicked = "none"
    /\ closing = "engineClosed"
    /\ isRunning' = FALSE
    /\ closing' = "flagCleared"
    /\ UNCHANGED <<badger, engineMem, badgerOpts, stopChan, gc, disk, diskKey,
                   dirLock, mem, panicked, ret, expect, scan, calls, iter>>

\* db.badger = nil, and Close returns
CloseHandle ==
    /\ panicked = "none"
    /\ closing = "flagCleared"
    /\ badger' = "nil"
    /\ engineMem' = FALSE
    /\ mem' = EmptyStore
    /\ closing' = "none"
    /\ ret' = [NoRet EXCEPT !.op = "Close", !.engine = "ok", !.deref = TRUE]
    /\ UNCHANGED <<isRunning, badgerOpts, stopChan, gc, disk, diskKey, dirLock,
                   panicked, expect, scan, calls, iter>>

\* a store opened while it is not running, accessors of several callers on one
\* key, and Close, all overlapping
NextConc ==
    \/ \E p \in OpenPaths :
         ~isRunning /\ closing = "none" /\ Open(p, "", "") /\ Sequential /\ Direct
    \/ \E c \in 1..MaxCallers, v \in Values : Guard(c, "Set", Ka1, v) /\ Direct
    \/ \E c \in 1..MaxCallers : Guard(c, "Get", Ka1, NoValue) /\ Direct
    \/ \E c \in 1..MaxCallers : Guard(c, "Delete", Ka1, NoValue) /\ Direct
    \/ \E c \in 1..MaxCallers : Transact(c) /\ Direct
    \/ CloseBegin /\ Direct
    \/ CloseEngine /\ Direct
    \/ CloseFlag /\ Direct
    \/ CloseHandle /\ Direct

SpecConc == Init /\ [][NextConc]_vars

(***************************************************************************)
(* Search(prefix, limit, offset): a windowed scan in key order that skips  *)
(* the first `offset` keys having the prefix and collects up to `limit` of *)
(* the keys that follow.  The keys come back as entries without values.    *)
(***************************************************************************)
MaxOffset == 2

RECURSIVE SearchLoop(_, _, _, _, _)
SearchLoop(rest, prefix, limit, skip, keys) ==
    IF rest = <<>> \/ ~HasPrefix(rest[1], prefix) \/ Len(keys) >= limit
    THEN keys
    ELSE IF skip > 0
    THEN SearchLoop(Tail(rest), prefix, limit, skip - 1, keys)
    ELSE SearchLoop(Tail(rest), prefix, limit, skip, Append(keys, rest[1]))

\* a search that takes the offset for the first position of its window
SearchSkipsOneLess(store, prefix, limit, offset) ==
    SearchLoop(Seek(store, prefix), prefix, limit,
               IF offset > 0 THEN offset - 1 ELSE 0, <<>>)

Search(store, prefix, limit, offset) ==
    SearchLoop(Seek(store, prefix), prefix, limit, offset, <<>>)

SearchCall(prefix, limit, offset) ==
    /\ panicked = "none"
    /\ LET r    == [NoRet EXCEPT !.op = "Search", !.prefix = prefix, !.limit = <<limit>>,
                                 !.offset = offset, !.deref = TRUE]
           keys == Search(Current, prefix, limit, offset)
       IN  IF badger = "nil"
           THEN ret' = [r EXCEPT !.err = "panic"] /\ panicked' = "nil dereference"
           ELSE IF badger = "closed"
           THEN ret' = [r EXCEPT !.err = "ErrDBClosed"] /\ UNCHANGED panicked
           ELSE /\ ret' = [r EXCEPT !.items = [i \in 1..Len(keys) |->
                                                [Key |-> keys[i], Value |-> NoValue]]]
                /\ UNCHANGED panicked
    /\ scan' = NoScan
    /\ UNCHANGED <<badger, engineMem, isRunning, badgerOpts, stopChan, gc, disk,
                   diskKey, dirLock, mem, expect>>

(***************************************************************************)
(* App.Call: one handler per message type.  `valid` says whether the body  *)
(* of the message unmarshals.  A response that carries a status text has   *)
(* the text itself as its body; a response that carries data has a JSON    *)
(* object as its body (its fields are kept in keys, cursor and offset).    *)
(* A body is a sequence of tokens: a text is one token, and a JSON string  *)
(* is the text between two quotation marks.                                *)
(***************************************************************************)
SearchLimits == {1, 2, 10}

NextSearch ==
    \E p \in Prefixes, l \in SearchLimits, o \in 0..MaxOffset :
        SearchCall(p, l, o) /\ Sequential /\ Direct

SpecSearch == InitList /\ [][NextSearch]_vars

OkResponse == "ok"
NotRunningResponse == "db isn't running"
UnknownMessageTypeResponse == "unknown message type"
AlreadyRunningResponse == "already running"
UnmarshalError == "unexpected end of JSON input"

\* err.Error()
ErrorText(e) ==
    CASE e = "ErrNotRunning"    -> "DB is not running"
      [] e = "ErrWrongPassword" -> "wrong username or password"
      [] e = "ErrKeyNotFound"   -> "Key not found"
      [] e = "ErrDBClosed"      -> "DB Closed"
      [] OTHER                  -> e

\* json.Unmarshal(body, &text) for a Go string: the body has to be a JSON string;
\* none of the texts of the model holds an escape sequence
JSONDecodeString(body) ==
    IF Len(body) = 3 /\ body[1] = "\"" /\ body[3] = "\""
    THEN [ok |-> TRUE, val |-> body[2]]
    ELSE [ok |-> FALSE, val |-> ""]

\* a status body that is the JSON string encoding of the text
JSONStatusBody(text) == <<"\"", text, "\"">>

\* the body of AppMessage{msg.Type, text}
StatusBody(text) == <<text>>

StatusResponse(type, text, called) ==
    [NoResponse EXCEPT !.req = type, !.type = type, !.body = StatusBody(text),
                       !.text = text, !.called = called]

DataResponse(type, called, keys, cursor, offset) ==
    [NoResponse EXCEPT !.req = type, !.type = type, !.body = <<"{", "}">>,
                       !.called = called, !.keys = keys, !.cursor = cursor,
                       !.offset = offset]

storeVars ==
    <<badger, engineMem, isRunning, badgerOpts, stopChan, gc, disk, diskKey, dirLock,
      mem, panicked, ret, expect, scan, calls, closing, iter>>

\* the handler returns r and touches nothing else
Respond(r) == app' = [app EXCEPT !.resp = r] /\ UNCHANGED storeVars

\* the response after a store call that reports an error or nil; a call that
\* panicked answers nothing
AfterCall(type, called, onSuccess) ==
    app' = IF ret'.err = "panic" THEN app
           ELSE IF ret'.err = "nil" THEN [app EXCEPT !.resp = onSuccess]
           ELSE [app EXCEPT !.resp = StatusResponse(type, ErrorText(ret'.err), called)]

\* an open handler that does not ask whether the store is running
AppOpenUnguarded(valid, path, key, compression, delimiter) ==
    /\ panicked = "none"
    /\ IF ~valid
       THEN Respond(StatusResponse("open", UnmarshalError, "none"))
       ELSE /\ Open(path, key, compression)
            /\ Sequential
            /\ app' = IF ret'.err = "nil"
                      THEN [app EXCEPT !.delimiter = delimiter,
                                       !.resp = StatusResponse("open", OkResponse, "Open")]
                      ELSE [app EXCEPT
                              !.resp = StatusResponse("open", ErrorText(ret'.err), "Open")]

AppOpen(valid, path, key, compression, delimiter) ==
    /\ panicked = "none"
    /\ IF isRunning
       THEN Respond(StatusResponse("open", AlreadyRunningResponse, "none"))
       ELSE IF ~valid
       THEN Respond(StatusResponse("open", UnmarshalError, "none"))
       ELSE /\ Open(path, key, compression)
            /\ Sequential
            /\ app' = IF ret'.err = "nil"
                      THEN [app EXCEPT !.delimiter = delimiter,
                                       !.resp = StatusResponse("open", OkResponse, "Open")]
                      ELSE [app EXCEPT
                              !.resp = StatusResponse("open", ErrorText(ret'.err), "Open")]

\* The open handler of a caller that runs beside other handlers, in two steps:
\* the IsRunning check and the unmarshalling, then the call of Open with what
\* follows it.  Nothing in App.Call keeps two callers apart between the steps.
AppOpenCheck(c, valid, path, delimiter) ==
    /\ panicked = "none"
    /\ app.opening[c] = NoOpening
    /\ IF isRunning
       THEN Respond(StatusResponse("open", AlreadyRunningResponse, "none"))
       ELSE IF ~valid
       THEN Respond(StatusResponse("open", UnmarshalError, "none"))
       ELSE /\ app' = [app EXCEPT !.opening[c] = [path |-> path, delimiter |-> delimiter]]
            /\ UNCHANGED storeVars

AppOpenDo(c) ==
    /\ app.opening[c] # NoOpening
    /\ Open(app.opening[c].path, "", "")
    /\ Sequential
    /\ app' = IF ret'.err = "nil"
              THEN [app EXCEPT !.delimiter = app.opening[c].delimiter,
                               !.resp = StatusResponse("open", OkResponse, "Open"),
                               !.opening[c] = NoOpening]
              ELSE [app EXCEPT !.resp = StatusResponse("open", ErrorText(ret'.err), "Open"),
                               !.opening[c] = NoOpening]

AppSet(valid, key, value) ==
    /\ panicked = "none"
    /\ IF ~isRunning
       THEN Respond(StatusResponse("set", NotRunningResponse, "none"))
       ELSE IF ~valid
       THEN Respond(StatusResponse("set", UnmarshalError, "none"))
       ELSE /\ Set(key, value)
            /\ Sequential
            /\ AfterCall("set", "Set", StatusResponse("set", OkResponse, "Set"))

AppGet(valid, key) ==
    /\ panicked = "none"
    /\ IF ~isRunning
       THEN Respond(StatusResponse("get", NotRunningResponse, "none"))
       ELSE IF ~valid
       THEN Respond(StatusResponse("get", UnmarshalError, "none"))
       ELSE /\ Get(key)
            /\ Sequential
            /\ AfterCall("get", "Get", DataResponse("get", "Get", <<key>>, <<>>, 0))

\* a delete handler that leaves the running check to the store
AppDeleteUnguarded(valid, key) ==
    /\ panicked = "none"
    /\ IF ~valid
       THEN Respond(StatusResponse("delete", UnmarshalError, "none"))
       ELSE /\ Delete(key)
            /\ Sequential
            /\ AfterCall("delete", "Delete", StatusResponse("delete", OkResponse, "Delete"))

AppDelete(valid, key) ==
    /\ panicked = "none"
    /\ IF ~isRunning
       THEN Respond(StatusResponse("delete", NotRunningResponse, "none"))
       ELSE IF ~valid
       THEN Respond(StatusResponse("delete", UnmarshalError, "none"))
       ELSE /\ Delete(key)
            /\ Sequential
            /\ AfterCall("delete", "Delete", StatusResponse("delete", OkResponse, "Delete"))

\* the error of List is logged; the page and the cursor are answered with or
\* without it
AppList(valid, prefix, limit, cursor) ==
    /\ panicked = "none"
    /\ IF ~isRunning
       THEN Respond(StatusResponse("list", NotRunningResponse, "none"))
       ELSE IF ~valid
       THEN Respond(StatusResponse("list", UnmarshalError, "none"))
       ELSE /\ ListCall(prefix, limit, cursor, {})
            /\ UNCHANGED <<calls, closing, iter>>
            /\ app' = IF ret'.err = "panic" THEN app
                      ELSE [app EXCEPT !.resp = DataResponse("list", "List",
                                                             PageKeys(ret'.items),
                                                             ret'.cursor, 0)]

AppSearch(valid, prefix, limit, offset) ==
    /\ panicked = "none"
    /\ IF ~isRunning
       THEN Respond(StatusResponse("search", NotRunningResponse, "none"))
       ELSE IF ~valid
       THEN Respond(StatusResponse("search", UnmarshalError, "none"))
       ELSE /\ SearchCall(prefix, limit, offset)
            /\ UNCHANGED <<calls, closing, iter>>
            /\ app' = IF ret'.err = "panic" THEN app
                      ELSE [app EXCEPT !.resp = DataResponse("search", "Search",
                                                             PageKeys(ret'.items), <<>>,
                                                             Len(ret'.items))]

\* a default case that answers with the type of the request, as the other cases do
AppUnknownEchoesType(type) ==
    /\ panicked = "none"
    /\ Respond([NoResponse EXCEPT !.req = type, !.type = type,
                                  !.body = StatusBody(UnknownMessageTypeResponse),
                                  !.text = UnknownMessageTypeResponse])

\* the default case of the switch: `type` is none of the message types
AppUnknown(type) ==
    /\ panicked = "none"
    /\ Respond([NoResponse EXCEPT !.req = type, !.type = "",
                                  !.body = StatusBody(UnknownMessageTypeResponse),
                                  !.text = UnknownMessageTypeResponse])

\* the shutdown hook
AppClose == Close /\ Sequential /\ UNCHANGED app

Delimiters == {"/", ":"}
\* type strings that match no case of the switch (the cases compare exactly)
UnknownTypes == {"ping", "OPEN", ""}
AppKeys == {Ka1, Kb1}

NextApp ==
    \/ \E v \in BOOLEAN, p \in OpenPaths, d \in Delimiters : AppOpen(v, p, "", "", d)
    \/ \E v \in BOOLEAN, k \in AppKeys : AppSet(v, k, "v1")
    \/ \E v \in BOOLEAN : AppGet(v, Ka1)
    \/ \E v \in BOOLEAN : AppDelete(v, Ka1)
    \/ \E v \in BOOLEAN : AppList(v, <<>>, <<2>>, <<>>)
    \/ \E v \in BOOLEAN, o \in 0..MaxOffset : AppSearch(v, <<97, 47>>, 10, o)
    \/ \E t \in UnknownTypes : AppUnknown(t)
    \/ AppClose

NextAppConc ==
    \/ \E c \in 1..MaxCallers, v \in BOOLEAN, p \in OpenPaths, d \in Delimiters :
         AppOpenCheck(c, v, p, d)
    \/ \E c \in 1..MaxCallers : AppOpenDo(c)
    \/ AppClose

SpecAppConc == Init /\ [][NextAppConc]_vars

SpecApp == Init /\ [][NextApp]_vars

(***************************************************************************)
(* A List scan that overlaps other calls.  ListBegin is List and iterate   *)
(* up to the creation of the iterator on a read transaction (a snapshot of *)
(* the entries) and its Seek; IterStep is one turn of the for loop, and    *)
(* the return once the loop is left.  No turn of the loop reads stopChan   *)
(* or the running flag.  What a read does once the engine is closed is not *)
(* defined by the engine: it panics or returns the entry.                  *)
(***************************************************************************)
ListBegin(prefix, limit, cursor) ==
    /\ panicked = "none"
    /\ ~iter.active
    /\ LET r    == List(Current, {}, prefix, limit, cursor)
           lim  == IF limit = <<>> THEN defaultLimit ELSE limit[1]
           from == IF cursor # <<>> /\ cursor[1] # <<>> THEN cursor[1] ELSE prefix
           no   == [ListRet(prefix, limit, cursor, {}, ScanResult(<<>>, <<>>, <<>>))
                      EXCEPT !.err = "panic", !.deref = r.deref]
           go   == [active |-> TRUE, prefix |-> prefix, limit |-> limit,
                    cursorArg |-> cursor, lim |-> lim, snap |-> Current,
                    rest |-> Seek(Current, from), iterNum |-> 0, items |-> <<>>]
       IN  IF r.crash # "none"
           THEN ret' = no /\ panicked' = r.crash /\ UNCHANGED iter
           ELSE IF ~r.deref
           THEN ret' = ListRet(prefix, limit, cursor, {}, r) /\ UNCHANGED <<panicked, iter>>
           ELSE IF badger = "nil"
           THEN ret' = no /\ panicked' = "nil dereference" /\ UNCHANGED iter
           ELSE IF badger = "closed"
           THEN \/ ret' = no /\ panicked' = "scan of a closed engine" /\ UNCHANGED iter
                \/ iter' = go /\ UNCHANGED <<ret, panicked>>
           ELSE iter' = go /\ UNCHANGED <<ret, panicked>>
    /\ UNCHANGED <<badger, engineMem, isRunning, badgerOpts, stopChan, gc, disk,
                   diskKey, dirLock, mem, expect, scan, calls, closing>>

\* the loop has come to its end: iterate picks the cursor and List returns
IterReturn(lastKey) ==
    /\ ret' = ListRet(iter.prefix, iter.limit, iter.cursorArg, {},
                      ScanResult(iter.items,
                                 IF iter.iterNum < iter.lim THEN endCursor ELSE lastKey,
                                 <<>>))
    /\ iter' = NoIter

IterStep ==
    /\ panicked = "none"
    /\ iter.active
    /\ \/ /\ badger # "open"
          /\ panicked' = "scan of a closed engine"
          /\ UNCHANGED <<iter, ret>>
       \/ /\ UNCHANGED panicked
          /\ IF iter.rest = <<>> \/ ~HasPrefix(iter.rest[1], iter.prefix)
             THEN IterReturn(<<>>)
             ELSE IF iter.iterNum >= iter.lim
             THEN IterReturn(iter.rest[1])
             ELSE /\ iter' = [iter EXCEPT
                                !.rest = Tail(iter.rest),
                                !.iterNum = iter.iterNum + 1,
                                !.items = Append(iter.items,
                                                 [Key |-> iter.rest[1],
                                                  Value |-> iter.snap[iter.rest[1]]])]
                  /\ UNCHANGED ret
    /\ UNCHANGED <<badger, engineMem, isRunning, badgerOpts, stopChan, gc, disk,
                   diskKey, dirLock, mem, expect, scan, calls, closing>>

\* a List scan and a Close overlapping on a store that holds entries
NextScan ==
    \/ \E p \in {<<>>, <<97, 47>>}, l \in 1..MaxLimit :
         ListBegin(p, <<l>>, <<>>) /\ Direct
    \/ IterStep /\ Direct
    \/ CloseBegin /\ Direct
    \/ CloseEngine /\ Direct
    \/ CloseFlag /\ Direct
    \/ CloseHandle /\ Direct

SpecScan == InitList /\ [][NextScan]_vars

(***************************************************************************)
(* The life cycle and the compactor goroutines alone.  The goroutines are  *)
(* scheduled fairly and the ticker keeps ticking; a select that finds the  *)
(* shutdown channel closed again and again takes that case in the end.     *)
(***************************************************************************)
NextGC ==
    \/ Lifecycle({""}, {""}) /\ Sequential /\ Direct
    \/ Compactor /\ Sequential /\ Direct

GCFairness ==
    \A i \in 1..MaxTasks :
        /\ WF_vars(GCFirst(i) /\ Sequential /\ Direct)
        /\ WF_vars(GCTick(i) /\ Sequential /\ Direct)
        /\ SF_vars(GCStop(i) /\ Sequential /\ Direct)
        /\ WF_vars(GCRun(i) /\ Sequential /\ Direct)
        /\ WF_vars(GCWake(i) /\ Sequential /\ Direct)

SpecGC == Init /\ [][NextGC]_vars /\ GCFairness

(***************************************************************************)
(* Properties.                                                             *)
(***************************************************************************)
StartCursorOf(cursor) ==
    IF cursor # <<>> /\ cursor[1] # <<>> THEN cursor[1] ELSE <<>>

\* C1: on a running store a Get(k) that follows a successful Set(k, v), with no
\* Set or Delete of k (and no Open or Close) in between, returns v and no error;
\* this includes a Set that overwrote another value.
C1_SetThenGet ==
    (ret.op = "Get" /\ expect[ret.key] \in Values)
        => (ret.err = "nil" /\ ret.val = expect[ret.key])

\* C1 witness: a Get returned the "v2" the last Set of its key wrote, while the
\* other key holds "v1".
C1_Witness ==
    /\ ret.op = "Get" /\ ret.err = "nil" /\ ret.val = "v2"
    /\ expect[ret.key] = "v2"
    /\ \E k \in AccessorKeys \ {ret.key} : expect[k] = "v1"

\* C2: on a running store Delete(k) returns no error and leaves k absent, whether
\* or not k was set; a Get(k) that follows (no Set of k in between) returns
\* not-found; and the Delete step changes the value of no other key.
C2_DeleteThenGet ==
    /\ [](/\ (ret.op = "Delete" /\ isRunning /\ badger = "open")
                => (ret.err = "nil" /\ Current[ret.key] = NoValue)
          /\ (ret.op = "Get" /\ expect[ret.key] = Deleted)
                => (ret.err = "ErrKeyNotFound" /\ ret.val = NoValue))
    /\ [][\A k \in AccessorKeys :
             Delete(k) => \A o \in Keys \ {k} : disk'[o] = disk[o] /\ mem'[o] = mem[o]]_vars

\* C2 witness: a Get returned not-found for a deleted key while the other key
\* still holds its value.
C2_Witness ==
    /\ ret.op = "Get" /\ ret.err = "ErrKeyNotFound"
    /\ expect[ret.key] = Deleted
    /\ \E k \in AccessorKeys \ {ret.key} : expect[k] \in Values /\ Current[k] = expect[k]

\* C3 (as claimed): whenever the store is not running (never opened, after a
\* failed Open, or after Close: the flag is false, or Close has been called on
\* the handle) Get, Set and Delete return ErrNotRunning without using the handle.
C3_NotRunningGuard ==
    (ret.op \in {"Get", "Set", "Delete"} /\ (~isRunning \/ badger = "closed"))
        => (ret.err = "ErrNotRunning" /\ ~ret.deref)


PrefixA == <<97, 47>>   \* "a/"

\* the store of the listing example: exactly a/1, a/2, a/3, b/1
ExampleStore == KeysOf(Current) = {Ka1, Ka2, Ka3, Kb1}

ExamplePaging == scan.prefix = PrefixA /\ scan.limit = 2

FullScan(store, prefix) == SortKeys({k \in KeysOf(store) : HasPrefix(k, prefix)})

IsInitialSegment(s, t) == Len(s) <= Len(t) /\ SubSeq(t, 1, Len(s)) = s

\* C5 (as claimed): with the store unchanged, the pages obtained by feeding each
\* returned cursor into the next List call (limit >= 1) concatenate to one
\* unbroken ascending scan of the keys having the prefix: at every point an
\* initial segment of it (no key twice, none skipped), and all of it once the end
\* sentinel has come back.
C5_PagesMakeOneScan ==
    scan.pages >= 1 =>
        /\ IsInitialSegment(scan.acc, FullScan(Current, scan.prefix))
        /\ ~scan.active => scan.acc = FullScan(Current, scan.prefix)

\* the limit a List call works with is at least 1
LimitAtLeastOne(limit) == limit = <<>> \/ limit[1] >= 1

\* the keys with the prefix from where the scan of a call starts
FromStart(store, prefix, cursor) ==
    LET seekKey == IF StartCursorOf(cursor) # <<>> THEN StartCursorOf(cursor) ELSE prefix
    IN  SortKeys({k \in KeysOf(store) : HasPrefix(k, prefix) /\ LexLeq(seekKey, k)})

\* C6 (as claimed): when a List call (limit >= 1) returns every key of the
\* prefixed range from its start position, so that none lies beyond the page,
\* the cursor it returns is the end sentinel.
C6_EndWhenExhausted ==
    (/\ ret.op = "List" /\ ret.err = "nil" /\ ret.deref
     /\ LimitAtLeastOne(ret.limit)
     /\ PageKeys(ret.items) = FromStart(Current, ret.prefix, ret.cursorArg))
        => ret.cursor = endCursor

\* the keys with the prefix that lie after a key
Beyond(store, prefix, last) ==
    {k \in KeysOf(store) : HasPrefix(k, prefix) /\ LexLess(last, k)}

\* C7 (as claimed): when a List call (limit >= 1) returns a page and keys with the
\* prefix remain after it, the cursor is the smallest such key, and List called
\* with that cursor returns a page that starts with that key.
C7_CursorIsNextKey ==
    (/\ ret.op = "List" /\ ret.err = "nil" /\ ret.deref
     /\ LimitAtLeastOne(ret.limit)
     /\ ret.items # <<>>
     /\ Beyond(Current, ret.prefix, ret.items[Len(ret.items)].Key) # {})
        => LET more == Beyond(Current, ret.prefix, ret.items[Len(ret.items)].Key)
               next == List(Current, {}, ret.prefix, ret.limit, <<ret.cursor>>)
           IN  /\ ret.cursor \in more
               /\ \A k \in more : LexLeq(ret.cursor, k)
               /\ next.items # <<>>
               /\ next.items[1].Key = ret.cursor

\* C8: List called with the end sentinel as cursor returns an empty page, the end
\* sentinel and no error without using the engine handle, whatever the state of
\* the store, the prefix and the limit.
C8_EndCursorShortCut ==
    (ret.op = "List" /\ StartCursorOf(ret.cursorArg) = endCursor)
        => (ret.items = <<>> /\ ret.cursor = endCursor /\ ret.err = "nil" /\ ~ret.deref)

\* C8 witness: on a store that was never opened, List with the end sentinel and a
\* negative limit returned the end sentinel.
C8_Witness ==
    /\ ret.op = "List" /\ ret.cursorArg = <<endCursor>> /\ ret.limit = <<0 - 1>>
    /\ ret.cursor = endCursor /\ ret.err = "nil"
    /\ ~isRunning /\ badger = "nil" /\ panicked = "none"

\* C9 (as claimed): List uses the engine handle only when the running flag is true.
C9_ListDerefOnlyWhenRunning ==
    (ret.op = "List" /\ ret.deref) => isRunning

\* C10: an Open that the engine fails returns ErrWrongPassword when the engine
\* reported the encryption key mismatch and the engine's own error otherwise; it
\* leaves the running flag as it was (false stays false) and starts no compactor.
C10_FailedOpen ==
    [][(/\ \E p \in OpenPaths, k \in OpenKeys, c \in OpenCodecs : Open(p, k, c)
        /\ ret'.engine # "ok")
          => /\ ret'.err = IF ret'.engine = "ErrEncryptionKeyMismatch"
                           THEN "ErrWrongPassword" ELSE ret'.engine
             /\ isRunning' = isRunning
             /\ gc' = gc]_vars

\* C10 witness: an Open of a store created under another key returned
\* ErrWrongPassword, the store is not running and no compactor is alive.
C10_Witness ==
    /\ ret.op = "Open" /\ ret.engine = "ErrEncryptionKeyMismatch"
    /\ ret.err = "ErrWrongPassword"
    /\ ~isRunning /\ badger = "nil"
    /\ \A i \in 1..Len(gc) : gc[i] = "exited"

\* a step in which compactor goroutine i calls RunValueLogGC on the handle
Reclaims(i) ==
    \/ GCFirst(i) /\ ~badgerOpts.InMemory /\ badger # "nil"
    \/ GCRun(i) /\ badger # "nil"

\* C11 (as claimed): every Open with an empty path, after any earlier Open and
\* Close calls, configures the engine in in-memory mode and starts no compactor
\* goroutine, and no reclamation call is made while the handle is the in-memory
\* engine that Open returned.
C11_InMemoryOpen ==
    /\ [][(\E k \in OpenKeys, c \in OpenCodecs : Open("", k, c))
             => /\ badgerOpts'.InMemory
                /\ ret'.engine = "ok" => engineMem'
                /\ gc' = gc]_vars
    /\ [][\A i \in 1..MaxTasks : Reclaims(i) => ~(badger = "open" /\ engineMem)]_vars

\* the store was never opened, or Close has been called on it since it last opened
NeverOpenedOrClosed == badger = "closed" \/ (badger = "nil" /\ ~isRunning)

\* C12 (as claimed): a Close call on a store that was never opened or has already
\* been closed changes nothing: the handle, the flag, the shutdown channel and
\* the stored data stay as they are, and the call does not panic.
C12_CloseIdempotent ==
    [][(Close /\ NeverOpenedOrClosed)
         => UNCHANGED <<badger, engineMem, isRunning, badgerOpts, stopChan, gc, disk,
                        diskKey, dirLock, mem, panicked>>]_vars

\* C13 (as claimed): when a Close call on a running store returns, also when the
\* engine's close reported an error, the running flag is false; Get, Set and
\* Delete called afterwards return ErrNotRunning; a further Close does not panic.
C13_CloseAlwaysStops ==
    /\ [][(Close /\ isRunning /\ badger = "open" /\ panicked' = "none")
            => ~isRunning']_vars
    /\ []((ret.op \in {"Get", "Set", "Delete"} /\ badger = "closed")
            => ret.err = "ErrNotRunning")
    /\ [][(Close /\ badger = "closed") => panicked' = "none"]_vars

\* C14 (as claimed): every Open that succeeds, a reopen after Close included,
\* leaves the store running on an open handle, and a Close of a store running on
\* an open handle does not panic and, when the engine closes, leaves it not
\* running.
C14_Reopen ==
    /\ [][((\E p \in OpenPaths : Open(p, "", "")) /\ ret'.engine = "ok")
            => (isRunning' /\ badger' = "open")]_vars
    /\ [][(Close /\ isRunning /\ badger = "open")
            => /\ panicked' = "none"
               /\ ret'.engine = "ok" => ~isRunning']_vars

AllExited == \A i \in 1..Len(gc) : gc[i] = "exited"

\* C18 (as claimed): once Close has closed the shutdown channel, every compactor
\* goroutine exits in the end (or the process has died), wherever the goroutine
\* is at that moment and whatever the reclamation calls return.
C18_CompactorStops ==
    (stopChan = "closed") ~> (panicked # "none" \/ AllExited)

\* C19 (as claimed): while the store runs on the handle of an on-disk Open, the
\* compactor goroutine that Open started (the last one started) has not exited.
C19_CompactorAlive ==
    (isRunning /\ badger = "open" /\ ~engineMem)
        => (gc # <<>> /\ gc[Len(gc)] # "exited")

\* C20 (as claimed): a reclamation call of the compaction cycle that returns an
\* error, whichever it is, ends the cycle: the goroutine is back in its select
\* (idle until the next tick) and has not exited.
C20_FailureEndsCycle ==
    [][\A i \in 1..MaxTasks : \A res \in GCResults \ {"nil"} :
         (GCRun(i) /\ badger # "nil" /\ gc'[i] = GCAfter(res)) => gc'[i] = "idle"]_vars

\* C15 (as claimed): in every state, the states inside Open and Close included,
\* the running flag is true only while the handle is set and its engine is open.
C15_RunningImpliesOpenHandle == isRunning => badger = "open"

\* C16 (as claimed): with a Close overlapping Get, Set and Delete calls on a
\* running store, every accessor call either completes its transaction on the
\* open handle or returns ErrNotRunning; none dereferences a nil handle.
C16_AccessorsSafeUnderClose ==
    (ret.op \in {"Get", "Set", "Delete"})
        => (ret.err \in {"nil", "ErrKeyNotFound", "ErrNotRunning"})

\* C17: with Set and Get calls of several callers overlapping on one key of a
\* running store, a Get whose transaction ran returns either not-found, and then
\* no Set of this open period has committed last, or the whole value of a Set,
\* which is the value of the Set committed last when there is one; once no call
\* is in progress the stored value is that of the Set committed last.
C17_ConcurrentSetGet ==
    /\ (ret.op = "Get" /\ ret.deref /\ ret.err \notin {"panic", "ErrDBClosed"})
          => \/ /\ ret.err = "ErrKeyNotFound" /\ ret.val = NoValue
                /\ expect[ret.key] \notin Values
             \/ /\ ret.err = "nil" /\ ret.val \in Values
                /\ expect[ret.key] \in Values => ret.val = expect[ret.key]
    /\ (calls = NoCalls /\ badger = "open")
          => \A k \in Keys : expect[k] \in Values => Current[k] = expect[k]

\* C17 witness: a Get returned the "v2" of the Set committed last while the Set
\* of "v1" by another caller, past its guard, had not yet committed.
C17_Witness ==
    /\ ret.op = "Get" /\ ret.err = "nil" /\ ret.val = "v2"
    /\ expect[ret.key] = "v2"
    /\ \E c \in 1..MaxCallers :
         calls[c].op = "Set" /\ calls[c].key = ret.key /\ calls[c].val = "v1"

\* C21 (as claimed): a List scan in progress when Close signals shutdown ends
\* before it reads from the closing handle: no turn of its loop runs once Close
\* has closed the engine behind the handle.
C21_ScanStopsOnShutdown ==
    [][IterStep => badger = "open"]_vars

(***************************************************************************)
(* The App layer.                                                          *)
(***************************************************************************)
DataTypes == {"set", "get", "delete", "list", "search"}

\* App.Call handles a message of type t
AppHandles(t) ==
    \/ t = "set" /\ \E v \in BOOLEAN, k \in AppKeys : AppSet(v, k, "v1")
    \/ t = "get" /\ \E v \in BOOLEAN : AppGet(v, Ka1)
    \/ t = "delete" /\ \E v \in BOOLEAN : AppDelete(v, Ka1)
    \/ t = "list" /\ \E v \in BOOLEAN : AppList(v, <<>>, <<2>>, <<>>)
    \/ t = "search" /\ \E v \in BOOLEAN, o \in 0..MaxOffset :
                         AppSearch(v, <<97, 47>>, 10, o)

\* C22: a set, get, delete, list or search message handled while IsRunning() is
\* false is answered with the request's type and the body "db isn't running", and
\* no method of the store is called: the store and the record of its last call
\* stay as they were.
C22_NotRunningAnswer ==
    [][\A t \in DataTypes :
         (~isRunning /\ AppHandles(t)) =>
            /\ app'.resp.type = t
            /\ app'.resp.body = <<"db isn't running">>
            /\ app'.resp.called = "none"
            /\ UNCHANGED storeVars]_vars

C22_Witness ==
    /\ ~isRunning
    /\ app.resp.req = "search"
    /\ app.resp.body = <<"db isn't running">>
    /\ disk # EmptyStore

MessageTypes == DataTypes \cup {"open"}

\* C24 (as claimed): every response that carries a status text has the type of its
\* request, and its body is the JSON string encoding of the text: decoding the
\* body as a JSON string succeeds and yields the text.
C24_StatusBodyIsJSON ==
    (app.resp.req \in MessageTypes /\ app.resp.text # "") =>
        /\ app.resp.type = app.resp.req
        /\ JSONDecodeString(app.resp.body) = [ok |-> TRUE, val |-> app.resp.text]

Min(a, b) == IF a <= b THEN a ELSE b

\* C25: Search skips the first `offset` keys that have the prefix, in key order,
\* and returns at most `limit` of the keys that follow them; over the keys a/1,
\* a/2, a/3, b/1, Search(prefix a/, limit 10, offset 1) returns [a/2, a/3].
C25_SearchWindow ==
    (ret.op = "Search" /\ ret.err = "nil") =>
        LET all  == FullScan(Current, ret.prefix)
            keys == PageKeys(ret.items)
        IN  /\ keys = SubSeq(all, ret.offset + 1,
                             Min(Len(all), ret.offset + ret.limit[1]))
            /\ (ExampleStore /\ ret.prefix = PrefixA /\ ret.limit = <<10>>
                  /\ ret.offset = 1) => keys = <<Ka2, Ka3>>

C25_Witness ==
    /\ ExampleStore
    /\ ret.op = "Search" /\ ret.prefix = PrefixA /\ ret.limit = <<10>> /\ ret.offset = 1
    /\ PageKeys(ret.items) = <<Ka2, Ka3>>

\* C26 (as claimed): with open messages of several callers and the shutdown hook
\* interleaved, no caller enters the store's Open while the store is running,
\* that is, after another caller's Open has succeeded and before Close.
C26_OneOpenAtATime ==
    [][\A c \in 1..MaxCallers : AppOpenDo(c) => ~isRunning]_vars

(***************************************************************************)
(* The options of an Open call.                                            *)
(***************************************************************************)
\* C27 (as claimed): the options an Open call hands to the engine depend on its
\* three arguments alone: whatever calls came before, they are the options the
\* same call produces on a DB fresh from New.
C27_OptionsFromArguments ==
    [][\A p \in OpenPaths, k \in OpenKeys, c \in AllCodecs :
         Open(p, k, c) => badgerOpts' = OpenOptions(NewOptions, p, k, c)]_vars

\* the codec the compression argument names
CodecNamed(compression) ==
    CASE ToLower(compression) = "snappy" -> "Snappy"
      [] ToLower(compression) = "zstd"   -> "ZSTD"
      [] OTHER                           -> "None"

\* C28 (as claimed): on disk and in memory, the codec Open configures is snappy
\* when the compression argument is "snappy" in any case, zstd when it is "zstd"
\* in any case, and none for every other argument, the empty string included.
C28_CodecOfArgument ==
    [][\A p \in OpenPaths, k \in OpenKeys, c \in AllCodecs :
         Open(p, k, c) => badgerOpts'.Compression = CodecNamed(c)]_vars

\* C29 (as claimed): after Open with a non-empty path the key directory and the
\* value-log directory of the options are both that path.
C29_RootedAtPath ==
    [][\A p \in OpenPaths \ {""}, k \in OpenKeys, c \in AllCodecs :
         Open(p, k, c) => (badgerOpts'.Dir = p /\ badgerOpts'.ValueDir = p)]_vars

(***************************************************************************)
(* Read failures during a scan.                                            *)
(***************************************************************************)
\* the position of a key in a sequence of distinct keys
IndexOf(seq, k) == CHOOSE i \in 1..Len(seq) : seq[i] = k

C31_SentinelIsNoKey ==
    (/\ ret.op = "List" /\ ret.err = "nil" /\ ret.bad = {}
     /\ LimitAtLeastOne(ret.limit)) =>
        /\ (/\ ret.deref /\ ret.cursor = endCursor
            /\ \/ StartCursorOf(ret.cursorArg) = <<>>
               \/ HasPrefix(StartCursorOf(ret.cursorArg), ret.prefix)) =>
              PageKeys(ret.items) = FromStart(Current, ret.prefix, ret.cursorArg)
        /\ (/\ StartCursorOf(ret.cursorArg) \in KeysOf(Current)
            /\ HasPrefix(StartCursorOf(ret.cursorArg), ret.prefix)) =>
              /\ ret.deref
              /\ ret.items # <<>>
              /\ ret.items[1].Key = StartCursorOf(ret.cursorArg)

(***************************************************************************)
(* The compactor and the handle.                                           *)
(***************************************************************************)
\* Close was the last call on the store and left the handle nil
ClosedToNil == badger = "nil" /\ ret.op = "Close"

\* C32 (as claimed): however the steps of a compactor goroutine and Close
\* interleave, the goroutine never calls RunValueLogGC through a handle that
\* Close has set to nil: not at its start, not on a tick, and not when it wakes
\* from the sleep between two attempts.
C32_CompactorHandleNotNil ==
    [][\A i \in 1..MaxTasks :
         ((GCFirst(i) /\ ~badgerOpts.InMemory) \/ GCRun(i)) => ~ClosedToNil]_vars

(***************************************************************************)
(* The limit of List.                                                      *)
(***************************************************************************)
\* C33 (as claimed): List panics for no limit: with limit 0 or a negative limit
\* it returns an empty page and a cursor, and with no limit it returns what it
\* returns for limit 20.
C33_AnyLimit ==
    (ret.op = "List" /\ ret.bad = {}) =>
        /\ ret.err # "panic"
        /\ (ret.limit # <<>> /\ ret.limit[1] <= 0) => ret.items = <<>>
        /\ ret.limit = <<>> =>
             LET r == List(Current, {}, ret.prefix, <<20>>, ret.cursorArg)
             IN  ret.items = r.items /\ ret.cursor = r.cursor /\ ret.err = r.err

(***************************************************************************)
(* Messages of no known type.                                              *)
(***************************************************************************)
\* C34: a message whose type is none of the known operation names is answered
\* with an empty type and the body "unknown message type"; no store method is
\* called (the store and the record of its last call stay as they were) and the
\* app keeps its delimiter, whether the store is running or not.
C34_UnknownType ==
    [][\A t \in UnknownTypes :
         AppUnknown(t) =>
            /\ app'.resp.type = ""
            /\ app'.resp.body = <<"unknown message type">>
            /\ app'.resp.called = "none"
            /\ app'.delimiter = app.delimiter
            /\ app'.opening = app.opening
            /\ UNCHANGED storeVars]_vars

\* a message of the unknown type OPEN answered on a running store that was opened
\* with the delimiter "/"
C34_Witness ==
    /\ isRunning
    /\ app.delimiter = "/"
    /\ app.resp.req = "OPEN"
    /\ app.resp.type = ""
    /\ app.resp.body = <<"unknown message type">>

====
